---- MODULE Spec2Model ----
(***************************************************************************)
(* A model of mikro-typebox's entity preparation pipeline                  *)
(* (generateEntityFileTypes and the functions it calls): entity and        *)
(* primary-key collection, relation collection, circular-reference         *)
(* detection, dependency ordering, per-unit projection and assembly.       *)
(*                                                                         *)
(* Source text is modelled by its syntax tree.  Every node is a record     *)
(* [tag, name, args]; a class is [name, entity, members] and a member is   *)
(* [name, deco, arg, type, init, opt].                                     *)
(***************************************************************************)
EXTENDS Integers, Sequences, FiniteSets, TLC

(***************************************************************************)
(* Bounds of the model.                                                    *)
(***************************************************************************)
\* total number of relation fields of a graph input
MaxRelations == 4
\* total number of relation fields of a projection input
MaxProjFields == 3
\* total number of relation fields of a unit input
MaxUnitRelations == 2

(***************************************************************************)
(* Names.  LexOrder lists the names in the order String.localeCompare      *)
(* gives them.                                                             *)
(***************************************************************************)
LexOrder == <<"A", "B", "C", "Comment", "D", "E", "Post", "User">>

RECURSIVE IndexIn(_, _, _)
IndexIn(s, x, i) ==
  IF i > Len(s) THEN 0 ELSE IF s[i] = x THEN i ELSE IndexIn(s, x, i + 1)

\* Array.prototype.indexOf, 1-based; 0 when absent
IndexOf(s, x) == IndexIn(s, x, 1)

Includes(s, x) == IndexOf(s, x) # 0

Range(s) == {s[i] : i \in DOMAIN s}

\* a.localeCompare(b) < 0
LocaleLess(a, b) == IndexOf(LexOrder, a) < IndexOf(LexOrder, b)

(***************************************************************************)
(* Syntax tree nodes.                                                      *)
(***************************************************************************)
Node(t, n, a) == [tag |-> t, name |-> n, args |-> a]
NoType == Node("none", "", <<>>)
Kw(n) == Node("kw", n, <<>>)
Ref(n) == Node("ref", n, <<>>)
RefArgs(n, a) == Node("ref", n, a)
Union(a) == Node("union", "", a)
TypeLiteral(members) == Node("lit", "", members)
\* a property signature: name, question token, type
PropertySignature(n, opt, t) == Node(IF opt THEN "prop?" ELSE "prop", n, <<t>>)
TypeAlias(n, t) == Node("alias", n, <<t>>)
NoInit == Node("none", "", <<>>)
NewExpr(n, a) == Node("new", n, a)

IsTypeRef(t) == t.tag = "ref"

Member(n, d, a, t, i, o) ==
  [name |-> n, deco |-> d, arg |-> a, type |-> t, init |-> i, opt |-> o]

Class(n, e, m) == [name |-> n, entity |-> e, members |-> m]

RECURSIVE Flatten(_)
Flatten(ss) == IF ss = <<>> THEN <<>> ELSE Head(ss) \o Flatten(Tail(ss))

\* fileContents.join("\n") parsed as one source file: the classes of all units
AllCode(fileContents) == Flatten(fileContents)

(***************************************************************************)
(* Sets and maps with insertion order.                                     *)
(***************************************************************************)
\* Set.prototype.add on a set kept in insertion order
SetAdd(s, x) == IF Includes(s, x) THEN s ELSE Append(s, x)

EmptyMap == [k \in {} |-> NoType]
MapHas(m, k) == k \in DOMAIN m
MapSet(m, k, v) == (k :> v) @@ m

(***************************************************************************)
(* visitEntities: the entity names and the primary key of every class     *)
(* carrying the Entity decorator.                                          *)
(***************************************************************************)
RECURSIVE FindMember(_, _, _)
\* Array.prototype.find over the members: the index of the first member
\* carrying decorator d, 0 when there is none
FindMember(members, d, i) ==
  IF i > Len(members) THEN 0
  ELSE IF members[i].deco = d THEN i
  ELSE FindMember(members, d, i + 1)

PrimaryKeyInfo(n, t) == [fieldName |-> n, fieldType |-> t]

\* the effect of one class declaration on (entityPrimaryKeys, entityNames)
VisitClass(c, acc) ==
  IF ~c.entity THEN acc
  ELSE LET i == FindMember(c.members, "PrimaryKey", 1)
           names == SetAdd(acc.names, c.name)
       IN IF i # 0 /\ c.members[i].type # NoType
          THEN [pk |-> MapSet(acc.pk, c.name,
                              PrimaryKeyInfo(c.members[i].name, c.members[i].type)),
                names |-> names]
          ELSE [pk |-> acc.pk, names |-> names]

RECURSIVE visitEntities(_, _)
visitEntities(classes, acc) ==
  IF classes = <<>> THEN acc
  ELSE visitEntities(Tail(classes), VisitClass(Head(classes), acc))

(***************************************************************************)
(* collectEntityRelations: one relation per ManyToOne or OneToMany member  *)
(* whose target name is a known entity.                                    *)
(***************************************************************************)
\* the target entity name of a relation member, "" when none is found:
\* the decorator's string argument, else the name of the type annotation,
\* else the type argument of a `new Collection<T>(...)` initializer
TargetEntityName(m) ==
  IF m.arg # "" THEN m.arg
  ELSE IF IsTypeRef(m.type) THEN m.type.name
  ELSE IF /\ m.init.tag = "new"
          /\ m.init.name = "Collection"
          /\ Len(m.init.args) > 0
          /\ IsTypeRef(m.init.args[1])
       THEN m.init.args[1].name
  ELSE ""

EntityRelation(f, t, p, c) ==
  [from |-> f, to |-> t, propertyName |-> p, isCollection |-> c]

RECURSIVE CollectMembers(_, _, _, _, _)
CollectMembers(className, members, i, entityNames, rels) ==
  IF i > Len(members) THEN rels
  ELSE LET m == members[i]
           hasManyToOne == m.deco = "ManyToOne"
           hasOneToMany == m.deco = "OneToMany"
           target == TargetEntityName(m)
           rels1 == IF /\ hasManyToOne \/ hasOneToMany
                       /\ target # ""
                       /\ Includes(entityNames, target)
                    THEN Append(rels, EntityRelation(className, target, m.name,
                                                     hasOneToMany))
                    ELSE rels
       IN CollectMembers(className, members, i + 1, entityNames, rels1)

RECURSIVE collectEntityRelations(_, _, _)
collectEntityRelations(classes, entityNames, rels) ==
  IF classes = <<>> THEN rels
  ELSE LET c == Head(classes)
           rels1 == IF c.entity
                    THEN CollectMembers(c.name, c.members, 1, entityNames, rels)
                    ELSE rels
       IN collectEntityRelations(Tail(classes), entityNames, rels1)

(***************************************************************************)
(* detectCircularReferences.                                               *)
(***************************************************************************)
RelationsFrom(entityRelations, e) ==
  SelectSeq(entityRelations, LAMBDA r : r.from = e)

RECURSIVE dfs(_, _, _, _, _), DfsRelations(_, _, _, _, _, _)
\* st = [visited, recursionStack, allCycles]
dfs(entityRelations, entityNames, entityName, path, st) ==
  IF entityName \in st.recursionStack
  THEN LET cycleStart == IndexOf(path, entityName)
           cycle == Append(SubSeq(path, cycleStart, Len(path)), entityName)
       IN [st EXCEPT !.allCycles = Append(@, cycle)]
  ELSE IF entityName \in st.visited THEN st
  ELSE LET st1 == [st EXCEPT !.visited = @ \cup {entityName},
                             !.recursionStack = @ \cup {entityName}]
           relations == RelationsFrom(entityRelations, entityName)
           st2 == DfsRelations(entityRelations, entityNames, relations, 1,
                               Append(path, entityName), st1)
       IN [st2 EXCEPT !.recursionStack = @ \ {entityName}]

\* the loop over the relations of one entity
DfsRelations(entityRelations, entityNames, relations, i, path, st) ==
  IF i > Len(relations) THEN st
  ELSE LET st1 == IF Includes(entityNames, relations[i].to)
                  THEN dfs(entityRelations, entityNames, relations[i].to, path, st)
                  ELSE st
       IN DfsRelations(entityRelations, entityNames, relations, i + 1, path, st1)

RECURSIVE DfsAll(_, _, _, _)
\* the loop starting a search from every entity not visited yet
DfsAll(entityRelations, entityNames, i, st) ==
  IF i > Len(entityNames) THEN st
  ELSE LET st1 == IF entityNames[i] \notin st.visited
                  THEN dfs(entityRelations, entityNames, entityNames[i], <<>>, st)
                  ELSE st
       IN DfsAll(entityRelations, entityNames, i + 1, st1)

\* the cycles the search records, in the order it records them
DetectCycles(entityRelations, entityNames) ==
  DfsAll(entityRelations, entityNames, 1,
         [visited |-> {}, recursionStack |-> {}, allCycles |-> <<>>]).allCycles

RECURSIVE MaxLen(_)
MaxLen(ss) ==
  IF ss = <<>> THEN 0
  ELSE LET m == MaxLen(Tail(ss))
       IN IF Len(Head(ss)) > m THEN Len(Head(ss)) ELSE m

RECURSIVE ByLengthFrom(_, _)
ByLengthFrom(ss, n) ==
  IF n < 0 THEN <<>>
  ELSE SelectSeq(ss, LAMBDA c : Len(c) = n) \o ByLengthFrom(ss, n - 1)

\* allCycles.sort((a, b) => b.length - a.length): longest first, stable
SortCyclesByLength(allCycles) == ByLengthFrom(allCycles, MaxLen(allCycles))

\* the pairs <<cycle[i], cycle[i+1]>> of a cycle
CyclePairs(cycle) == {<<cycle[i], cycle[i + 1]>> : i \in 1 .. (Len(cycle) - 1)}

\* BreakCycle recording the closing relation the wrong way round
BreakCycleSwapped(cycle, broken) ==
  LET isCycleBroken == CyclePairs(cycle) \cap broken # {}
      from == cycle[Len(cycle) - 1]
      to == cycle[Len(cycle)]
  IN IF ~isCycleBroken /\ Len(cycle) >= 2 /\ from # to
     THEN broken \cup {<<to, from>>}
     ELSE broken

\* BreakCycle breaking the first relation of the cycle
BreakCycleFirstEdge(cycle, broken) ==
  LET isCycleBroken == CyclePairs(cycle) \cap broken # {}
      from == cycle[1]
      to == cycle[2]
  IN IF ~isCycleBroken /\ Len(cycle) >= 2 /\ from # to
     THEN broken \cup {<<from, to>>}
     ELSE broken

\* BreakCycle without the test that from and to differ
BreakCycleSelfToo(cycle, broken) ==
  LET isCycleBroken == CyclePairs(cycle) \cap broken # {}
      from == cycle[Len(cycle) - 1]
      to == cycle[Len(cycle)]
  IN IF ~isCycleBroken /\ Len(cycle) >= 2
     THEN broken \cup {<<from, to>>}
     ELSE broken

\* BreakCycle breaking the first relation of the cycle along with the last
BreakCycleBothEnds(cycle, broken) ==
  LET isCycleBroken == CyclePairs(cycle) \cap broken # {}
      from == cycle[Len(cycle) - 1]
      to == cycle[Len(cycle)]
  IN IF ~isCycleBroken /\ Len(cycle) >= 2 /\ from # to
     THEN broken \cup {<<from, to>>, <<cycle[1], cycle[2]>>}
     ELSE broken

\* one iteration of the loop over the sorted cycles; broken is the set of
\* broken (from, to) pairs
BreakCycle(cycle, broken) ==
  LET isCycleBroken == CyclePairs(cycle) \cap broken # {}
      from == cycle[Len(cycle) - 1]
      to == cycle[Len(cycle)]
  IN IF ~isCycleBroken /\ Len(cycle) >= 2 /\ from # to
     THEN broken \cup {<<from, to>>}
     ELSE broken

RECURSIVE BreakCycles(_, _)
BreakCycles(cycles, broken) ==
  IF cycles = <<>> THEN broken
  ELSE BreakCycles(Tail(cycles), BreakCycle(Head(cycles), broken))

\* the circularReferences map, as the set of its (from, to) pairs
detectCircularReferences(entityRelations, entityNames) ==
  BreakCycles(SortCyclesByLength(DetectCycles(entityRelations, entityNames)), {})

(***************************************************************************)
(* sortEntitiesByDependency.                                               *)
(***************************************************************************)
RECURSIVE BuildGraphReversed(_, _, _)
\* BuildGraph counting a relation for its target instead of its owner
BuildGraphReversed(entityRelations, entityNames, g) ==
  IF entityRelations = <<>> THEN g
  ELSE LET relation == Head(entityRelations)
           g1 == IF /\ Includes(entityNames, relation.from)
                    /\ Includes(entityNames, relation.to)
                 THEN [inDegree |->
                         [g.inDegree EXCEPT ![relation.to] = @ + 1],
                       adjacencyList |->
                         [g.adjacencyList EXCEPT
                            ![relation.from] = Append(@, relation.to)]]
                 ELSE g
       IN BuildGraphReversed(Tail(entityRelations), entityNames, g1)

RECURSIVE BuildGraph(_, _, _)
\* the loop building inDegree and adjacencyList;
\* g = [inDegree, adjacencyList], both maps over the entity names
BuildGraph(entityRelations, entityNames, g) ==
  IF entityRelations = <<>> THEN g
  ELSE LET relation == Head(entityRelations)
           g1 == IF /\ Includes(entityNames, relation.from)
                    /\ Includes(entityNames, relation.to)
                 THEN [inDegree |->
                         [g.inDegree EXCEPT ![relation.from] = @ + 1],
                       adjacencyList |->
                         [g.adjacencyList EXCEPT
                            ![relation.to] = Append(@, relation.from)]]
                 ELSE g
       IN BuildGraph(Tail(entityRelations), entityNames, g1)

InitialGraph(entityNames) ==
  [inDegree |-> [n \in Range(entityNames) |-> 0],
   adjacencyList |-> [n \in Range(entityNames) |-> <<>>]]

RECURSIVE ReleaseOnEveryDecrement(_, _, _)
\* Release queueing the dependent whenever its degree has not gone negative
ReleaseOnEveryDecrement(dependents, i, k) ==
  IF i > Len(dependents) THEN k
  ELSE LET dependent == dependents[i]
           newDegree == k.workingInDegree[dependent] - 1
           k1 == [queue |-> IF newDegree >= 0
                            THEN Append(k.queue, dependent)
                            ELSE k.queue,
                  workingInDegree |->
                    [k.workingInDegree EXCEPT ![dependent] = newDegree]]
       IN ReleaseOnEveryDecrement(dependents, i + 1, k1)

RECURSIVE Release(_, _, _)
\* the loop over the dependents of the entity just emitted;
\* k = [queue, workingInDegree]
Release(dependents, i, k) ==
  IF i > Len(dependents) THEN k
  ELSE LET dependent == dependents[i]
           newDegree == k.workingInDegree[dependent] - 1
           k1 == [queue |-> IF newDegree = 0
                            THEN Append(k.queue, dependent)
                            ELSE k.queue,
                  workingInDegree |->
                    [k.workingInDegree EXCEPT ![dependent] = newDegree]]
       IN Release(dependents, i + 1, k1)

RECURSIVE Kahn(_, _, _, _)
\* the while loop over the queue
Kahn(adjacencyList, queue, workingInDegree, result) ==
  IF queue = <<>> THEN result
  ELSE LET current == Head(queue)
           k == Release(adjacencyList[current], 1,
                        [queue |-> Tail(queue),
                         workingInDegree |-> workingInDegree])
       IN Kahn(adjacencyList, k.queue, k.workingInDegree,
               Append(result, current))

\* Outgoing counting the distinct targets
OutgoingTargets(entityRelations, a) ==
  Cardinality({r.to : r \in Range(RelationsFrom(entityRelations, a))})

\* entityRelations.filter(r => r.from === a).length
Outgoing(entityRelations, a) == Len(RelationsFrom(entityRelations, a))

\* the comparator comparing the names alone
RemainingLessByName(entityRelations, inDegree, a, b) == LocaleLess(a, b)

\* the comparator of the sort of the remaining entities is negative
RemainingLess(entityRelations, inDegree, a, b) ==
  LET degreeA == inDegree[a]
      degreeB == inDegree[b]
      outgoingA == Outgoing(entityRelations, a)
      outgoingB == Outgoing(entityRelations, b)
  IN IF degreeA # degreeB THEN degreeA < degreeB
     ELSE IF outgoingA # outgoingB THEN outgoingA < outgoingB
     ELSE LocaleLess(a, b)

RECURSIVE SortRemaining(_, _, _)
\* remaining.sort(comparator): the comparator is a total order on distinct
\* names, so the result is the one sequence it orders
SortRemaining(entityRelations, inDegree, remaining) ==
  IF remaining = <<>> THEN <<>>
  ELSE LET least == CHOOSE a \in Range(remaining) :
                      \A b \in Range(remaining) \ {a} :
                         RemainingLess(entityRelations, inDegree, a, b)
       IN <<least>> \o SortRemaining(entityRelations, inDegree,
                                     SelectSeq(remaining, LAMBDA x : x # least))

RECURSIVE WorkingInDegreeAfter(_, _, _)
\* workingInDegree when the while loop over the queue ends
WorkingInDegreeAfter(adjacencyList, queue, workingInDegree) ==
  IF queue = <<>> THEN workingInDegree
  ELSE LET k == Release(adjacencyList[Head(queue)], 1,
                        [queue |-> Tail(queue),
                         workingInDegree |-> workingInDegree])
       IN WorkingInDegreeAfter(adjacencyList, k.queue, k.workingInDegree)

\* sortEntitiesByDependency sorting the remaining entities by workingInDegree
SortByWorkingInDegree(entityRelations, entityNames) ==
  LET g == BuildGraph(entityRelations, entityNames, InitialGraph(entityNames))
      queue == SelectSeq(entityNames, LAMBDA e : g.inDegree[e] = 0)
      result == Kahn(g.adjacencyList, queue, g.inDegree, <<>>)
      remaining == SelectSeq(entityNames, LAMBDA n : ~Includes(result, n))
  IN result \o SortRemaining(entityRelations,
                             WorkingInDegreeAfter(g.adjacencyList, queue, g.inDegree),
                             remaining)

\* sortEntitiesByDependency putting the sorted remainder before the drained
\* entities
SortRemainderFirst(entityRelations, entityNames) ==
  LET g == BuildGraph(entityRelations, entityNames, InitialGraph(entityNames))
      queue == SelectSeq(entityNames, LAMBDA e : g.inDegree[e] = 0)
      result == Kahn(g.adjacencyList, queue, g.inDegree, <<>>)
      remaining == SelectSeq(entityNames, LAMBDA n : ~Includes(result, n))
  IN SortRemaining(entityRelations, g.inDegree, remaining) \o result

sortEntitiesByDependency(entityRelations, entityNames) ==
  LET g == BuildGraph(entityRelations, entityNames, InitialGraph(entityNames))
      queue == SelectSeq(entityNames, LAMBDA e : g.inDegree[e] = 0)
      result == Kahn(g.adjacencyList, queue, g.inDegree, <<>>)
      remaining == SelectSeq(entityNames, LAMBDA n : ~Includes(result, n))
  IN result \o SortRemaining(entityRelations, g.inDegree, remaining)

(***************************************************************************)
(* The type projection of one field.                                       *)
(***************************************************************************)
\* createPrimaryKeyObjectType giving the field the type any
PrimaryKeyObjectUntyped(primaryKeyInfo) ==
  TypeLiteral(<<PropertySignature(primaryKeyInfo.fieldName, FALSE, Kw("any"))>>)

createPrimaryKeyObjectType(primaryKeyInfo) ==
  TypeLiteral(<<PropertySignature(primaryKeyInfo.fieldName, FALSE,
                                  primaryKeyInfo.fieldType)>>)

PartialName(entityName) == "Partial" \o entityName

\* replaceEntityTypeWithPartialType looking the broken pair up as (to, from)
ReplacePartialReversedPair(type, entityPrimaryKeys, circularReferences, currentEntity) ==
  IF IsTypeRef(type) /\ MapHas(entityPrimaryKeys, type.name)
  THEN IF <<type.name, currentEntity>> \in circularReferences
       THEN createPrimaryKeyObjectType(entityPrimaryKeys[type.name])
       ELSE Ref("schema." \o PartialName(type.name))
  ELSE type

\* replaceEntityTypeWithPartialType inlining the primary key for every target
\* once currentEntity has a broken pair
ReplacePartialPerEntity(type, entityPrimaryKeys, circularReferences, currentEntity) ==
  IF IsTypeRef(type) /\ MapHas(entityPrimaryKeys, type.name)
  THEN IF \E x \in circularReferences : x[1] = currentEntity
       THEN createPrimaryKeyObjectType(entityPrimaryKeys[type.name])
       ELSE Ref("schema." \o PartialName(type.name))
  ELSE type

replaceEntityTypeWithPartialType(type, entityPrimaryKeys, circularReferences, currentEntity) ==
  IF IsTypeRef(type) /\ MapHas(entityPrimaryKeys, type.name)
  THEN IF <<currentEntity, type.name>> \in circularReferences
       THEN createPrimaryKeyObjectType(entityPrimaryKeys[type.name])
       ELSE Ref("schema." \o PartialName(type.name))
  ELSE type

\* replaceEntityTypeWithPrimaryKey giving any for a name without primary key
ReplaceUnknownWithAny(type, entityPrimaryKeys) ==
  IF IsTypeRef(type)
  THEN IF MapHas(entityPrimaryKeys, type.name)
       THEN createPrimaryKeyObjectType(entityPrimaryKeys[type.name])
       ELSE Kw("any")
  ELSE type

replaceEntityTypeWithPrimaryKey(type, entityPrimaryKeys) ==
  IF IsTypeRef(type) /\ MapHas(entityPrimaryKeys, type.name)
  THEN createPrimaryKeyObjectType(entityPrimaryKeys[type.name])
  ELSE type

\* ReplaceEntityType taking the partial-type branch whatever the option
ReplaceEntityTypeAlwaysPartial(type, entityPrimaryKeys, usePartial, circularReferences, currentEntity) ==
  replaceEntityTypeWithPartialType(type, entityPrimaryKeys, circularReferences,
                                   currentEntity)

\* the replacement either mode applies to a type argument
ReplaceEntityType(type, entityPrimaryKeys, usePartial, circularReferences, currentEntity) ==
  IF usePartial
  THEN replaceEntityTypeWithPartialType(type, entityPrimaryKeys,
                                        circularReferences, currentEntity)
  ELSE replaceEntityTypeWithPrimaryKey(type, entityPrimaryKeys)

CollectionOrArray(typeArgs) ==
  Union(<<RefArgs("Collection", typeArgs), RefArgs("Array", typeArgs)>>)

IsCollectionRef(type) == IsTypeRef(type) /\ type.name = "Collection"

transformCollectionType(type, entityPrimaryKeys, usePartial, circularReferences, currentEntity) ==
  IF IsCollectionRef(type)
  THEN CollectionOrArray(
         [i \in DOMAIN type.args |->
            ReplaceEntityType(type.args[i], entityPrimaryKeys, usePartial,
                              circularReferences, currentEntity)])
  ELSE type

transformTypeNode(type, entityPrimaryKeys, usePartial, circularReferences, currentEntity) ==
  IF IsCollectionRef(type)
  THEN transformCollectionType(type, entityPrimaryKeys, usePartial,
                               circularReferences, currentEntity)
  ELSE ReplaceEntityType(type, entityPrimaryKeys, usePartial,
                         circularReferences, currentEntity)

\* inferTypeFromInitializer replacing the type argument of new Collection<T>
\* by the primary-key object whatever the option
InferWithPrimaryKeyOnly(initializer, entityPrimaryKeys, usePartial, circularReferences, currentEntity) ==
  IF /\ initializer.tag = "new"
     /\ initializer.name = "Collection"
     /\ Len(initializer.args) > 0
  THEN CollectionOrArray(
         <<replaceEntityTypeWithPrimaryKey(initializer.args[1], entityPrimaryKeys)>>)
  ELSE IF initializer.tag = "array" THEN RefArgs("Array", <<Kw("any")>>)
  ELSE NoType

\* NoType stands for undefined
inferTypeFromInitializer(initializer, entityPrimaryKeys, usePartial, circularReferences, currentEntity) ==
  IF /\ initializer.tag = "new"
     /\ initializer.name = "Collection"
     /\ Len(initializer.args) > 0
  THEN CollectionOrArray(
         <<ReplaceEntityType(initializer.args[1], entityPrimaryKeys, usePartial,
                             circularReferences, currentEntity)>>)
  ELSE IF initializer.tag = "array" THEN RefArgs("Array", <<Kw("any")>>)
  ELSE NoType

(***************************************************************************)
(* The transformer: a class declaration becomes its main type alias and,   *)
(* with usePartialTypes and a primary key, its partial type alias.         *)
(***************************************************************************)
\* the property signature the transformer makes of one member
MemberSignature(member, className, entityPrimaryKeys, usePartial, circularReferences) ==
  LET inferred == IF member.type = NoType /\ member.init # NoInit
                  THEN inferTypeFromInitializer(member.init, entityPrimaryKeys,
                                                usePartial, circularReferences,
                                                className)
                  ELSE member.type
      type == IF inferred = NoType THEN Kw("any") ELSE inferred
  IN PropertySignature(member.name, member.opt,
                       transformTypeNode(type, entityPrimaryKeys, usePartial,
                                         circularReferences, className))

IsOptional(prop) == prop.tag = "prop?"

createPartialEntityType(entityName, primaryKeyInfo, allProperties) ==
  TypeAlias(PartialName(entityName),
            TypeLiteral([i \in DOMAIN allProperties |->
               IF allProperties[i].name = primaryKeyInfo.fieldName
               THEN allProperties[i]
               ELSE PropertySignature(allProperties[i].name, TRUE,
                                      allProperties[i].args[1])]))

\* the declarations the transformer makes of one class declaration
TransformClass(c, entityPrimaryKeys, usePartial, circularReferences) ==
  LET propertySignatures ==
        [i \in DOMAIN c.members |->
           MemberSignature(c.members[i], c.name, entityPrimaryKeys, usePartial,
                           circularReferences)]
      mainType == TypeAlias(c.name, TypeLiteral(propertySignatures))
  IN IF usePartial /\ MapHas(entityPrimaryKeys, c.name)
     THEN <<mainType,
            createPartialEntityType(c.name, entityPrimaryKeys[c.name],
                                    propertySignatures)>>
     ELSE <<mainType>>

RECURSIVE TransformClasses(_, _, _, _)
TransformClasses(classes, entityPrimaryKeys, usePartial, circularReferences) ==
  IF classes = <<>> THEN <<>>
  ELSE TransformClass(Head(classes), entityPrimaryKeys, usePartial,
                      circularReferences)
       \o TransformClasses(Tail(classes), entityPrimaryKeys, usePartial,
                           circularReferences)

\* the primary keys after generateEntityTypes has visited the unit's entities
UnitPrimaryKeys(code, entityPrimaryKeys) ==
  visitEntities(code, [pk |-> entityPrimaryKeys, names |-> <<>>]).pk

\* the declarations printed for one unit
generateEntityTypes(code, entityPrimaryKeys, usePartial, circularReferences) ==
  TransformClasses(code, UnitPrimaryKeys(code, entityPrimaryKeys), usePartial,
                   circularReferences)

(***************************************************************************)
(* Reordering of the units by the dependency order of their entities.      *)
(***************************************************************************)
\* the names of the entities declared in one unit
FileEntityNames(code) ==
  visitEntities(code, [pk |-> EmptyMap, names |-> <<>>]).names

RECURSIVE MapEntities(_, _, _, _)
MapEntities(names, i, code, m) ==
  IF i > Len(names) THEN m
  ELSE MapEntities(names, i + 1, code, MapSet(m, names[i], code))

RECURSIVE EntityToFileMap(_, _, _)
\* the loop mapping each entity to the content of the unit declaring it
EntityToFileMap(fileContents, i, m) ==
  IF i > Len(fileContents) THEN m
  ELSE EntityToFileMap(fileContents, i + 1,
         MapEntities(FileEntityNames(fileContents[i]), 1, fileContents[i], m))

RECURSIVE ReorderByEntity(_, _, _, _)
\* the loop over sortedEntityNames; r = [files, processed]
ReorderByEntity(sortedEntityNames, i, entityToFileMap, r) ==
  IF i > Len(sortedEntityNames) THEN r
  ELSE LET entityName == sortedEntityNames[i]
           r1 == IF /\ MapHas(entityToFileMap, entityName)
                    /\ entityToFileMap[entityName] \notin r.processed
                 THEN [files |-> Append(r.files, entityToFileMap[entityName]),
                       processed |-> r.processed \cup {entityToFileMap[entityName]}]
                 ELSE r
       IN ReorderByEntity(sortedEntityNames, i + 1, entityToFileMap, r1)

\* ReorderFileContents appending the remaining units without the check that
\* they were not processed
ReorderNoCheck(contents, sortedNames) ==
  LET m == EntityToFileMap(contents, 1, [k \in {} |-> <<>>])
      r == ReorderByEntity(sortedNames, 1, m, [files |-> <<>>, processed |-> {}])
  IN r.files \o contents

ReorderFileContents(contents, sortedNames) ==
  LET m == EntityToFileMap(contents, 1, [k \in {} |-> <<>>])
      r == ReorderByEntity(sortedNames, 1, m,
                           [files |-> <<>>, processed |-> {}])
  IN r.files \o SelectSeq(contents, LAMBDA f : f \notin r.processed)

(***************************************************************************)
(* generateEntityFileTypes as a function of its input.                     *)
(***************************************************************************)
\* FirstPassOf looking at the first unit alone
FirstPassFirstUnit(contents) ==
  LET code == IF contents = <<>> THEN <<>> ELSE contents[1]
      v == visitEntities(code, [pk |-> EmptyMap, names |-> <<>>])
      rels == collectEntityRelations(code, v.names, <<>>)
  IN [pk |-> v.pk, names |-> v.names, rels |-> rels,
      circ |-> detectCircularReferences(rels, v.names)]

\* the first pass over all units together
FirstPassOf(contents) ==
  LET v == visitEntities(AllCode(contents), [pk |-> EmptyMap, names |-> <<>>])
      rels == collectEntityRelations(AllCode(contents), v.names, <<>>)
  IN [pk |-> v.pk, names |-> v.names, rels |-> rels,
      circ |-> detectCircularReferences(rels, v.names)]

RECURSIVE GenerateUnits(_, _, _, _)
\* reorderedFileContents.map(code => generateEntityTypes(code, ...)), one list
\* of declarations per unit
GenerateUnits(units, pks, usePartial, circ) ==
  IF units = <<>> THEN <<>>
  ELSE <<generateEntityTypes(Head(units), pks, usePartial, circ)>>
       \o GenerateUnits(Tail(units), UnitPrimaryKeys(Head(units), pks),
                        usePartial, circ)

\* export type Collection<T> = { [k: number]: T; };
CollectionDeclaration == TypeAlias("Collection", Kw("{ [k: number]: T; }"))

\* the namespace with the Collection declaration put before every unit
NamespacePerUnit(generated) ==
  Node("namespace", "schema",
       Flatten([i \in DOMAIN generated |-> <<CollectionDeclaration>> \o generated[i]]))

\* export namespace schema { Collection declaration, generated types }
Namespace(generated) ==
  Node("namespace", "schema", <<CollectionDeclaration>> \o Flatten(generated))

generateEntityFileTypes(contents, usePartial) ==
  LET f == FirstPassOf(contents)
      sorted == sortEntitiesByDependency(f.rels, f.names)
      reordered == ReorderFileContents(contents, sorted)
  IN Namespace(GenerateUnits(reordered, f.pk, usePartial, f.circ))

(***************************************************************************)
(* Inputs: entity classes as the test entities write them.                 *)
(***************************************************************************)
PkType(name) == IF IndexOf(LexOrder, name) % 2 = 1 THEN "number" ELSE "string"

PkName(name) == IF IndexOf(LexOrder, name) % 2 = 1 THEN "id" ELSE "uuid"

\* @PrimaryKey() id!: number   (pkKind "req")
\* @PrimaryKey() id?: number   (pkKind "opt"); no such member for "none";
\* every other entity declares @PrimaryKey() uuid!: string
PkMembers(name, pkKind) ==
  IF pkKind = "none" THEN <<>>
  ELSE <<Member(PkName(name), "PrimaryKey", "", Kw(PkType(name)), NoInit, pkKind = "opt")>>

\* @Property() title!: string   and   @Property({ nullable: true }) note?: string
ScalarMembers ==
  <<Member("title", "Property", "", Kw("string"), NoInit, FALSE),
    Member("note", "Property", "", Kw("string"), NoInit, TRUE)>>

\* a relation member of the given shape, named n, targeting entity t
RelationMember(shape, n, t) ==
  CASE shape = "toOne" ->
         \* @ManyToOne(() => T) n!: T
         Member(n, "ManyToOne", "", Ref(t), NoInit, FALSE)
    [] shape = "inferred" ->
         \* @OneToMany(() => T, ...) n = new Collection<T>(this)
         Member(n, "OneToMany", "", NoType, NewExpr("Collection", <<Ref(t)>>), FALSE)
    [] shape = "explicit" ->
         \* @OneToMany(() => T, ...) n: Collection<T> = new Collection<T>(this)
         Member(n, "OneToMany", "", RefArgs("Collection", <<Ref(t)>>),
                NewExpr("Collection", <<Ref(t)>>), FALSE)
    [] shape = "oneToOne" ->
         \* @OneToOne(() => T) n?: T
         Member(n, "OneToOne", "", Ref(t), NoInit, TRUE)

\* rels is a sequence of <<shape, target>>
EntityClass(name, pkKind, rels) ==
  Class(name, TRUE,
        PkMembers(name, pkKind) \o ScalarMembers \o
        [i \in DOMAIN rels |->
           RelationMember(rels[i][1], "r" \o ToString(i), rels[i][2])])

SeqsUpTo(S, k) == UNION {[1 .. n -> S] : n \in 0 .. k}

RECURSIVE RelationListsFrom(_, _, _)
\* every way to give the entities i .. Len(opts) relation lists, entity j's
\* over opts[j], with k relations in all at most
RelationListsFrom(i, opts, k) ==
  IF i > Len(opts) THEN {<<>>}
  ELSE UNION {{<<s>> \o rest : rest \in RelationListsFrom(i + 1, opts, k - Len(s))} :
              s \in SeqsUpTo(opts[i], k)}

RelationLists(opts, k) == RelationListsFrom(1, opts, k)

Perms(n) == {p \in [1 .. n -> 1 .. n] : \A i, j \in 1 .. n : p[i] = p[j] => i = j}

\* graph inputs: the k-th relation field of an entity is to-one for odd k and
\* an inferred collection for even k
GraphShape(k) == IF k % 2 = 1 THEN "toOne" ELSE "inferred"

\* the entities of a graph input
GraphNames == <<"A", "B", "C">>
NumEntities == Len(GraphNames)

GraphClasses(targets) ==
  [i \in 1 .. NumEntities |->
     EntityClass(GraphNames[i], "req",
                 [k \in DOMAIN targets[i] |-> <<GraphShape(k), targets[i][k]>>])]

\* one entity per unit, in every arrival order
GraphInputs ==
  {[u \in 1 .. NumEntities |-> <<GraphClasses(targets)[p[u]]>>] :
     targets \in RelationLists([i \in DOMAIN GraphNames |-> Range(GraphNames)],
                                 MaxRelations),
     p \in Perms(NumEntities)}

\* projection inputs: two entities, relation fields of every shape to the other
\* entity and of the two shapes that yield a relation to the entity itself,
\* the first entity with a required, an optional or no primary key
ProjNames == <<"A", "B">>
ProjShapes == {"toOne", "inferred", "explicit", "oneToOne"}
SelfShapes == {"toOne", "inferred"}
PkKinds == {"req", "opt", "none"}

ProjOptions(name) ==
  (ProjShapes \X (Range(ProjNames) \ {name})) \cup (SelfShapes \X {name})

ProjClasses(rels, pkKind) ==
  [i \in DOMAIN ProjNames |->
     EntityClass(ProjNames[i], IF i = 1 THEN pkKind ELSE "req", rels[i])]

ProjInputs ==
  {[u \in DOMAIN ProjNames |-> <<ProjClasses(rels, pkKind)[p[u]]>>] :
     rels \in RelationLists([i \in DOMAIN ProjNames |-> ProjOptions(ProjNames[i])],
                              MaxProjFields),
     pkKind \in PkKinds,
     p \in Perms(Len(ProjNames))}

\* unit inputs: the first n entities, n from zero on, in every arrival order,
\* assigned to units in every way that keeps the arrival order (cuts are the
\* positions after which a new unit starts), with or without a last unit
\* whose text is identical to the first unit's
UnitClasses(n, targets) ==
  [i \in 1 .. n |->
     EntityClass(GraphNames[i], "req",
                 [k \in DOMAIN targets[i] |-> <<GraphShape(k), targets[i][k]>>])]

UnitFrom(classes, cuts, s) ==
  LET e == CHOOSE e \in s .. Len(classes) :
             /\ e = Len(classes) \/ e \in cuts
             /\ \A x \in s .. (e - 1) : x \notin cuts
  IN SubSeq(classes, s, e)

RECURSIVE SplitUnits(_, _, _)
SplitUnits(classes, cuts, s) ==
  IF s > Len(classes) THEN <<>>
  ELSE LET u == UnitFrom(classes, cuts, s)
       IN <<u>> \o SplitUnits(classes, cuts, s + Len(u))

WithDuplicate(units, dup) ==
  IF dup /\ units # <<>> THEN Append(units, units[1]) ELSE units

UnitInputs ==
  UNION {
    {WithDuplicate(SplitUnits([u \in 1 .. n |-> UnitClasses(n, targets)[p[u]]],
                              cuts, 1), dup) :
       targets \in RelationLists([i \in 1 .. n |-> Range(SubSeq(GraphNames, 1, n))],
                                   MaxUnitRelations),
       p \in Perms(n),
       cuts \in SUBSET (1 .. (n - 1)),
       dup \in BOOLEAN} :
    n \in 0 .. NumEntities}

\* the three test entities; User as either of its two versions in the
\* repository, without or with the enum fields role and status
ScenarioVersions == {"plain", "enums"}

ScenarioUser(version) ==
  Class("User", TRUE,
        <<Member("id", "PrimaryKey", "", Kw("number"), NoInit, FALSE),
          Member("name", "Property", "", Kw("string"), NoInit, FALSE),
          Member("email", "Property", "", Kw("string"), NoInit, FALSE),
          Member("age", "Property", "", Kw("number"), NoInit, TRUE)>>
        \o (IF version = "enums"
            THEN <<Member("role", "Enum", "", Ref("UserRole"), NoInit, FALSE),
                   Member("status", "Enum", "", Ref("UserStatus"), NoInit, FALSE)>>
            ELSE <<>>)
        \o <<RelationMember("inferred", "posts", "Post")>>)

ScenarioPost ==
  Class("Post", TRUE,
        <<Member("id", "PrimaryKey", "", Kw("string"), NoInit, FALSE),
          Member("title", "Property", "", Kw("string"), NoInit, FALSE),
          Member("content", "Property", "", Kw("string"), NoInit, FALSE),
          Member("publishedAt", "Property", "", Ref("Date"), NoInit, FALSE),
          RelationMember("toOne", "author", "User"),
          RelationMember("inferred", "comments", "Comment")>>)

ScenarioComment ==
  Class("Comment", TRUE,
        <<Member("id", "PrimaryKey", "", Kw("number"), NoInit, FALSE),
          Member("content", "Property", "", Kw("string"), NoInit, FALSE),
          Member("createdAt", "Property", "", Ref("Date"), NoInit, FALSE),
          RelationMember("toOne", "post", "Post"),
          RelationMember("toOne", "author", "User")>>)

ScenarioClasses(version) == <<ScenarioUser(version), ScenarioPost, ScenarioComment>>

\* one entity per unit, in each of the six arrival orders
ScenarioInputs ==
  {[u \in 1 .. 3 |-> <<ScenarioClasses(version)[p[u]]>>] :
     version \in ScenarioVersions, p \in Perms(3)}

\* opaque inputs: the two entities with relation fields of every shape to a
\* name that is no entity, and edge-making fields to the other entity; the
\* name is declared nowhere, or by a class without the Entity decorator in a
\* unit of its own, first or last
OpaqueName == "X"
OpaqueDeclared == {"nowhere", "first", "last"}

OpaqueOptions(name) ==
  (SelfShapes \X (Range(ProjNames) \ {name})) \cup (ProjShapes \X {OpaqueName})

\* class X { @PrimaryKey() uuid!: string; ... } without @Entity()
OpaqueClass == Class(OpaqueName, FALSE, PkMembers(OpaqueName, "req") \o ScalarMembers)

OpaqueUnits(units, declared) ==
  CASE declared = "nowhere" -> units
    [] declared = "first" -> <<(<<OpaqueClass>>)>> \o units
    [] declared = "last" -> units \o <<(<<OpaqueClass>>)>>

OpaqueInputs ==
  {OpaqueUnits([u \in DOMAIN ProjNames |-> <<ProjClasses(rels, "req")[p[u]]>>], d) :
     rels \in RelationLists([i \in DOMAIN ProjNames |-> OpaqueOptions(ProjNames[i])],
                              MaxProjFields),
     d \in OpaqueDeclared,
     p \in Perms(Len(ProjNames))}

(***************************************************************************)
(* The pipeline of generateEntityFileTypes as a state machine.             *)
(***************************************************************************)
VARIABLES
  fileContents,           \* input: the units, each the classes it declares
  usePartialTypes,        \* input: options.usePartialTypes
  pc,                     \* "start", "collected", "ordered", "done"
  entityPrimaryKeys,
  entityNames,
  entityRelations,
  circularReferences,     \* the set of broken (from, to) pairs
  sortedEntityNames,
  reorderedFileContents,
  generatedTypes,         \* the declarations of the units projected so far
  output,                 \* the namespace returned
  opts,                   \* the options generateEntityValidator was given
  fileSystem,             \* the entities directory and the output file
  vpc,                    \* the position of generateEntityValidator
  validatorCode,          \* the validator code as generated, then as formatted
  returned                \* what generateEntityValidator returned or threw

validatorVars == <<opts, fileSystem, vpc, validatorCode, returned>>

vars == <<fileContents, usePartialTypes, pc, entityPrimaryKeys, entityNames,
          entityRelations, circularReferences, sortedEntityNames,
          reorderedFileContents, generatedTypes, output, opts, fileSystem, vpc,
          validatorCode, returned>>

\* generateEntityFileTypes called by itself: no validator run
NoValidator ==
  /\ opts = [direct |-> TRUE]
  /\ fileSystem = [direct |-> TRUE]
  /\ vpc = "direct"
  /\ validatorCode = NoType
  /\ returned = NoType

InitWith(inputs) ==
  /\ NoValidator
  /\ fileContents \in inputs
  /\ usePartialTypes \in BOOLEAN
  /\ pc = "start"
  /\ entityPrimaryKeys = EmptyMap
  /\ entityNames = <<>>
  /\ entityRelations = <<>>
  /\ circularReferences = {}
  /\ sortedEntityNames = <<>>
  /\ reorderedFileContents = <<>>
  /\ generatedTypes = <<>>
  /\ output = NoType

Init == InitWith(GraphInputs)

InitProj == InitWith(ProjInputs)

\* first pass: entities, primary keys, relations and circular references of
\* all units together
FirstPass ==
  /\ pc = "start"
  /\ LET f == FirstPassOf(fileContents)
     IN /\ entityPrimaryKeys' = f.pk
        /\ entityNames' = f.names
        /\ entityRelations' = f.rels
        /\ circularReferences' = f.circ
  /\ pc' = "collected"
  /\ UNCHANGED <<fileContents, usePartialTypes, sortedEntityNames,
                 reorderedFileContents, generatedTypes, output>>
  /\ UNCHANGED validatorVars

\* the dependency order and the units reordered by it
Reorder ==
  /\ pc = "collected"
  /\ LET sorted == sortEntitiesByDependency(entityRelations, entityNames)
     IN /\ sortedEntityNames' = sorted
        /\ reorderedFileContents' = ReorderFileContents(fileContents, sorted)
  /\ pc' = "ordered"
  /\ UNCHANGED <<fileContents, usePartialTypes, entityPrimaryKeys, entityNames,
                 entityRelations, circularReferences, generatedTypes, output>>
  /\ UNCHANGED validatorVars

\* second pass: generateEntityTypes on the next reordered unit
ProjectUnit ==
  /\ pc = "ordered"
  /\ Len(generatedTypes) < Len(reorderedFileContents)
  /\ LET code == reorderedFileContents[Len(generatedTypes) + 1]
     IN /\ generatedTypes' =
             Append(generatedTypes,
                    generateEntityTypes(code, entityPrimaryKeys, usePartialTypes,
                                        circularReferences))
        /\ entityPrimaryKeys' = UnitPrimaryKeys(code, entityPrimaryKeys)
  /\ UNCHANGED <<fileContents, usePartialTypes, pc, entityNames, entityRelations,
                 circularReferences, sortedEntityNames, reorderedFileContents,
                 output>>
  /\ UNCHANGED validatorVars

\* the generated types wrapped in the namespace
Assemble ==
  /\ pc = "ordered"
  /\ Len(generatedTypes) = Len(reorderedFileContents)
  /\ output' = Namespace(generatedTypes)
  /\ pc' = "done"
  /\ UNCHANGED <<fileContents, usePartialTypes, entityPrimaryKeys, entityNames,
                 entityRelations, circularReferences, sortedEntityNames,
                 reorderedFileContents, generatedTypes>>
  /\ UNCHANGED validatorVars

Next == FirstPass \/ Reorder \/ ProjectUnit \/ Assemble

Spec == Init /\ [][Next]_vars

SpecProj == InitProj /\ [][Next]_vars

InitUnits == InitWith(UnitInputs)

SpecUnits == InitUnits /\ [][Next]_vars

InitScenario == InitWith(ScenarioInputs)

SpecScenario == InitScenario /\ [][Next]_vars

InitOpaque == InitWith(OpaqueInputs)

SpecOpaque == InitOpaque /\ [][Next]_vars

(***************************************************************************)
(* generateEntityValidator: read the entities directory, project the       *)
(* entities, generate the validator, format it, write it, return it.       *)
(***************************************************************************)
\* the keys of modelsToFunction
modelsToFunction ==
  ("arktype" :> "ArkType") @@ ("effect" :> "Effect") @@ ("io-ts" :> "IoTs") @@
  ("javascript" :> "JavaScript") @@ ("json-schema" :> "JsonSchema") @@
  ("typebox" :> "TypeBox") @@ ("typescript" :> "TypeScript") @@
  ("valibot" :> "Valibot") @@ ("value" :> "Value") @@ ("yup" :> "Yup") @@
  ("zod" :> "Zod")

\* names every object inherits, for which `name in modelsToFunction` holds too
InheritedKeys == {"toString"}

\* an option left out
Undefined == "undefined"

\* the values of opts.targetValidationLibrary: left out, two recognized keys,
\* a name that is no key, and an inherited name
TargetLibraries == {Undefined, "typebox", "zod", "invalid-library", "toString"}

\* the values of opts.write and opts.partials
OptionalBooleans == {Undefined, "true", "false"}

Extensions == {".ts", ".mts", ".cts", ".js", ".mjs", ".cjs", ".jsx", ".tsx"}

DirEntry(base, ext, content) == [base |-> base, ext |-> ext, content |-> content]

\* the entities directory: missing, empty, holding no entity file, one entity
\* file, or two entity files whose entities relate to each other
MissingDir == <<DirEntry("", "missing", <<>>)>>

EntitiesDirs ==
  {MissingDir,
   <<>>,
   <<DirEntry("README", ".md", <<>>)>>,
   <<DirEntry("A", ".ts", <<EntityClass("A", "req", <<>>)>>),
     DirEntry("notes", ".txt", <<>>)>>,
   <<DirEntry("A", ".ts", <<EntityClass("A", "req", <<(<<"inferred", "B">>)>>)>>),
     DirEntry("B", ".ts", <<EntityClass("B", "req", <<(<<"toOne", "A">>)>>)>>)>>}

\* the output file before the run: absent, or holding an earlier text
NoFile == NoType
EarlierFile == Node("text", "earlier", <<>>)
OutputFilesBefore == {NoFile, EarlierFile}

Error(message) == Node("error", message, <<>>)

\* existsSync holding for every directory
ExistsAlways(dir) == TRUE

existsSync(dir) == dir # MissingDir

\* readEntities after the existence check: the contents of the entries with
\* a source-file extension, in directory order
EntityFiles(dir) ==
  LET files == SelectSeq(dir, LAMBDA entry : entry.ext \in Extensions)
  IN [i \in DOMAIN files |-> files[i].content]

\* opts.partials ?? (targetValidationLibrary === undefined || ... === "typebox")
PartialsOption(o) ==
  IF o.partials # Undefined THEN o.partials = "true"
  ELSE o.targetValidationLibrary \in {Undefined, "typebox"}

\* generateValidator: the generated code, or the error thrown
generateValidator(o, typesCode) ==
  IF o.targetValidationLibrary \in {Undefined, "typebox"}
  THEN Node("TypeScriptToTypeBox", "", <<typesCode>>)
  ELSE IF o.targetValidationLibrary \in DOMAIN modelsToFunction
  THEN Node("ModelTo" \o modelsToFunction[o.targetValidationLibrary], "",
            <<typesCode>>)
  ELSE IF o.targetValidationLibrary \in InheritedKeys
  THEN Error("TypeError: undefined is not an object")
  ELSE Error("Invalid target validation library")

RECURSIVE HasEnumDeclaration(_)
HasEnumDeclaration(node) ==
  \/ node.tag = "enum"
  \/ \E i \in DOMAIN node.args : HasEnumDeclaration(node.args[i])

\* postprocessEnums: the code itself when it declares no enum
postprocessEnums(code) ==
  IF ~HasEnumDeclaration(code) THEN code
  ELSE Node("importsAndCode", "", <<code>>)

\* formatCode: the code formatted, or the code itself when prettier fails
formatCode(code, prettierWorks) ==
  IF prettierWorks THEN Node("formatted", "", <<code>>) ELSE code

InitValidator ==
  /\ opts \in [targetValidationLibrary : TargetLibraries,
                write : OptionalBooleans,
                partials : OptionalBooleans]
  /\ fileSystem \in [entitiesDir : EntitiesDirs, outputFile : OutputFilesBefore]
  /\ vpc = "readEntities"
  /\ validatorCode = NoType
  /\ returned = NoType
  /\ fileContents = <<>>
  /\ usePartialTypes = FALSE
  /\ pc = "idle"
  /\ entityPrimaryKeys = EmptyMap
  /\ entityNames = <<>>
  /\ entityRelations = <<>>
  /\ circularReferences = {}
  /\ sortedEntityNames = <<>>
  /\ reorderedFileContents = <<>>
  /\ generatedTypes = <<>>
  /\ output = NoType

pipelineVars ==
  <<entityPrimaryKeys, entityNames, entityRelations, circularReferences,
    sortedEntityNames, reorderedFileContents, generatedTypes, output>>

\* await readEntities(opts), and the call of generateEntityFileTypes entered
ReadEntities ==
  /\ vpc = "readEntities"
  /\ IF ~existsSync(fileSystem.entitiesDir)
     THEN /\ vpc' = "thrown"
          /\ returned' = Error("Entities directory does not exist")
          /\ UNCHANGED <<fileContents, usePartialTypes, pc>>
     ELSE /\ fileContents' = EntityFiles(fileSystem.entitiesDir)
          /\ usePartialTypes' = PartialsOption(opts)
          /\ pc' = "start"
          /\ vpc' = "generateEntityFileTypes"
          /\ UNCHANGED returned
  /\ UNCHANGED <<opts, fileSystem, validatorCode>>
  /\ UNCHANGED pipelineVars

\* GenerateValidator writing the types code to the output file before the
\* validator is generated
GenerateValidatorAfterWrite ==
  /\ vpc = "generateEntityFileTypes"
  /\ pc = "done"
  /\ fileSystem' = IF opts.write = "true"
                   THEN [fileSystem EXCEPT !.outputFile = output]
                   ELSE fileSystem
  /\ LET generated == generateValidator(opts, output)
     IN IF generated.tag = "error"
        THEN /\ vpc' = "thrown"
             /\ returned' = generated
             /\ UNCHANGED validatorCode
        ELSE /\ validatorCode' = postprocessEnums(generated)
             /\ vpc' = "formatCode"
             /\ UNCHANGED returned
  /\ UNCHANGED <<opts, fileContents, usePartialTypes, pc>>
  /\ UNCHANGED pipelineVars

\* generateValidator(opts, typesCode) and postprocessEnums, once
\* generateEntityFileTypes has returned
GenerateValidator ==
  /\ vpc = "generateEntityFileTypes"
  /\ pc = "done"
  /\ LET generated == generateValidator(opts, output)
     IN IF generated.tag = "error"
        THEN /\ vpc' = "thrown"
             /\ returned' = generated
             /\ UNCHANGED validatorCode
        ELSE /\ validatorCode' = postprocessEnums(generated)
             /\ vpc' = "formatCode"
             /\ UNCHANGED returned
  /\ UNCHANGED <<opts, fileSystem, fileContents, usePartialTypes, pc>>
  /\ UNCHANGED pipelineVars

\* await formatCode(postprocessedCode)
FormatCode ==
  /\ vpc = "formatCode"
  /\ \E prettierWorks \in BOOLEAN :
        validatorCode' = formatCode(validatorCode, prettierWorks)
  /\ vpc' = "writeFile"
  /\ UNCHANGED <<opts, fileSystem, returned, fileContents, usePartialTypes, pc>>
  /\ UNCHANGED pipelineVars

\* if (opts.write) await writeFile(outputFile, formattedCode)
WriteFile ==
  /\ vpc = "writeFile"
  /\ fileSystem' = IF opts.write = "true"
                   THEN [fileSystem EXCEPT !.outputFile = validatorCode]
                   ELSE fileSystem
  /\ vpc' = "return"
  /\ UNCHANGED <<opts, validatorCode, returned, fileContents, usePartialTypes, pc>>
  /\ UNCHANGED pipelineVars

\* return formattedCode
Return ==
  /\ vpc = "return"
  /\ returned' = validatorCode
  /\ vpc' = "returned"
  /\ UNCHANGED <<opts, fileSystem, validatorCode, fileContents, usePartialTypes, pc>>
  /\ UNCHANGED pipelineVars

NextValidator ==
  \/ ReadEntities
  \/ FirstPass
  \/ Reorder
  \/ ProjectUnit
  \/ Assemble
  \/ GenerateValidator
  \/ FormatCode
  \/ WriteFile
  \/ Return

SpecValidator == InitValidator /\ [][NextValidator]_vars

(***************************************************************************)
(* Notions the properties are stated with.                                 *)
(***************************************************************************)
\* the (from, to) pairs of the relation edges
EdgePairs(rels) == {<<rels[i].from, rels[i].to>> : i \in DOMAIN rels}

RECURSIVE Closure(_)
\* the transitive closure of a set of pairs
Closure(E) ==
  LET E2 == E \cup {<<p[1][1], p[2][2]>> : p \in {q \in E \X E : q[1][2] = q[2][1]}}
  IN IF E2 = E THEN E ELSE Closure(E2)

\* the graph with edges E has a directed cycle
HasCycle(E) == \E x \in Closure(E) : x[1] = x[2]

\* the relation edges between two different entities
ProperPairs(E) == {x \in E : x[1] # x[2]}

\* position of entity n in an order
Pos(order, n) == IndexOf(order, n)

\* the declarations of the output
Decls == output.args

RECURSIVE Mentions(_, _)
\* the syntax tree holds a type reference to refName
Mentions(node, refName) ==
  \/ node.tag = "ref" /\ node.name = refName
  \/ \E i \in DOMAIN node.args : Mentions(node.args[i], refName)

PartialRef(e) == "schema.Partial" \o e

\* how many declarations of the output have this name
DeclCount(out, n) == Len(SelectSeq(out.args, LAMBDA d : d.tag = "alias" /\ d.name = n))

\* the entities in the order of their main declarations in the output
EmittedOrder(out, names) ==
  LET main == SelectSeq(out.args, LAMBDA d : d.tag = "alias" /\ Includes(names, d.name))
  IN [i \in DOMAIN main |-> main[i].name]

\* the units in another arrival order
Permuted(contents, p) == [i \in DOMAIN contents |-> contents[p[i]]]

\* the classes of the input
SourceClasses == Range(AllCode(fileContents))

\* the primary-key member of a class as its source declares it
SourcePk(c) == c.members[FindMember(c.members, "PrimaryKey", 1)]

SourceHasPk(c) ==
  /\ FindMember(c.members, "PrimaryKey", 1) # 0
  /\ SourcePk(c).type # NoType

\* the classes declaring a known entity that has a primary key
PkClasses == {c \in SourceClasses : c.entity /\ SourceHasPk(c)}

EntityClasses == {c \in SourceClasses : c.entity}

\* the field is to-many: typed Collection<T>, or untyped and initialized with
\* new Collection<T>(...)
IsToMany(m) ==
  \/ IsCollectionRef(m.type)
  \/ m.type = NoType /\ m.init.tag = "new" /\ m.init.name = "Collection"

\* the entity name a field relates to by its type or its initializer, "" when
\* it names none
RelTarget(m) ==
  IF IsCollectionRef(m.type)
  THEN IF Len(m.type.args) > 0 /\ IsTypeRef(m.type.args[1])
       THEN m.type.args[1].name ELSE ""
  ELSE IF IsTypeRef(m.type) THEN m.type.name
  ELSE IF IsToMany(m) /\ Len(m.init.args) > 0 /\ IsTypeRef(m.init.args[1])
       THEN m.init.args[1].name
  ELSE ""

\* the declaration of the output with this name
DeclNamed(n) == CHOOSE d \in Range(Decls) : d.tag = "alias" /\ d.name = n

\* the property signatures of a declaration
Props(d) == d.args[1].args

\* the type the output gives field m of class c
ProjectedType(c, m) ==
  (CHOOSE q \in Range(Props(DeclNamed(c.name))) : q.name = m.name).args[1]

\* t is an inline object type with one field, the primary key of class tc
IsStub(t, tc) ==
  /\ t.tag = "lit"
  /\ Len(t.args) = 1
  /\ t.args[1].tag \in {"prop", "prop?"}
  /\ t.args[1].name = SourcePk(tc).name
  /\ t.args[1].args = <<SourcePk(tc).type>>

\* t is Collection<E> | Array<E> with P(E)
IsCollectionUnion(t, P(_)) ==
  /\ t.tag = "union"
  /\ Len(t.args) = 2
  /\ t.args[1].tag = "ref" /\ t.args[1].name = "Collection"
  /\ t.args[2].tag = "ref" /\ t.args[2].name = "Array"
  /\ \A k \in 1 .. 2 : Len(t.args[k].args) = 1 /\ P(t.args[k].args[1])

\* field m of class c is projected with the stub of tc: as its type when
\* to-one, as its element type when to-many
ProjectedAsStub(c, m, tc) ==
  IF IsToMany(m)
  THEN IsCollectionUnion(ProjectedType(c, m), LAMBDA t : IsStub(t, tc))
  ELSE IsStub(ProjectedType(c, m), tc)

\* the members of class c relating to the entity of class tc
MembersTo(c, tc) == {i \in DOMAIN c.members : RelTarget(c.members[i]) = tc.name}

(***************************************************************************)
(* C1 as stated: after detectCircularReferences every recorded cycle has   *)
(* a consecutive (from, to) pair in the BrokenEdgeSet, and the relation    *)
(* edges whose pair is not in the BrokenEdgeSet form no directed cycle,    *)
(* self-relations included.                                                *)
(***************************************************************************)
C1_AsStated ==
  pc # "start" =>
    /\ \A c \in Range(DetectCycles(entityRelations, entityNames)) :
          CyclePairs(c) \cap circularReferences # {}
    /\ ~HasCycle(EdgePairs(entityRelations) \ circularReferences)

(***************************************************************************)
(* C1 amended: after detectCircularReferences every recorded cycle through *)
(* two or more entities (every cycle but the [A, A] of a self-relation)    *)
(* has a consecutive (from, to) pair in the BrokenEdgeSet, and the         *)
(* relation edges between different entities whose pair is not in the      *)
(* BrokenEdgeSet form no directed cycle; no self-relation pair is broken.  *)
(***************************************************************************)
C1_CyclesBroken ==
  pc # "start" =>
    /\ \A c \in Range(DetectCycles(entityRelations, entityNames)) :
          Len(c) > 2 => CyclePairs(c) \cap circularReferences # {}
    /\ ~HasCycle(ProperPairs(EdgePairs(entityRelations)) \ circularReferences)
    /\ ProperPairs(circularReferences) = circularReferences

\* a cycle through three entities whose closing relation is declared twice,
\* and is broken
C1_Witness ==
  /\ pc = "collected"
  /\ \E c \in Range(DetectCycles(entityRelations, entityNames)) : Len(c) = 4
  /\ \E i, j \in DOMAIN entityRelations :
        /\ i # j
        /\ entityRelations[i].from = entityRelations[j].from
        /\ entityRelations[i].to = entityRelations[j].to
        /\ <<entityRelations[i].from, entityRelations[i].to>> \in circularReferences

(***************************************************************************)
(* C3: when the relation graph is acyclic (parallel relation fields        *)
(* allowed), sortEntitiesByDependency places every entity strictly after   *)
(* every entity it has a relation to.                                      *)
(***************************************************************************)
C3_AcyclicOrder ==
  (pc \in {"ordered", "done"} /\ ~HasCycle(EdgePairs(entityRelations))) =>
    \A i \in DOMAIN entityRelations :
       /\ Pos(sortedEntityNames, entityRelations[i].to) > 0
       /\ Pos(sortedEntityNames, entityRelations[i].to)
            < Pos(sortedEntityNames, entityRelations[i].from)

\* an acyclic graph over three entities with a parallel relation field, whose
\* dependency order differs from the arrival order
C3_Witness ==
  /\ pc = "ordered"
  /\ ~HasCycle(EdgePairs(entityRelations))
  /\ Cardinality(EdgePairs(entityRelations)) = 3
  /\ Len(entityRelations) = 4
  /\ sortedEntityNames # entityNames

(***************************************************************************)
(* C2 as stated: with usePartialTypes, whenever a declaration of entity Y  *)
(* (main or partial) refers to schema.PartialX of another entity X, the    *)
(* declaration of PartialX comes earlier in the output.                    *)
(***************************************************************************)
C2_NoForwardReference ==
  (pc = "done" /\ usePartialTypes) =>
    \A i \in DOMAIN Decls : \A x \in Range(entityNames) :
       (/\ Decls[i].name \notin {x, PartialName(x), "Collection"}
        /\ Mentions(Decls[i], PartialRef(x)))
       => \E j \in 1 .. (i - 1) : Decls[j].name = PartialName(x)

(***************************************************************************)
(* C4 as stated: permuting the arrival order of the units changes neither  *)
(* the order of the entities' declarations in the output nor the           *)
(* BrokenEdgeSet.                                                          *)
(***************************************************************************)
C4_OrderIndependence ==
  pc = "done" =>
    \A p \in Perms(Len(fileContents)) :
       LET other == Permuted(fileContents, p)
       IN /\ FirstPassOf(other).circ = circularReferences
          /\ EmittedOrder(generateEntityFileTypes(other, usePartialTypes),
                          entityNames)
               = EmittedOrder(output, entityNames)

\* the same with the BrokenEdgeSet alone
C4_BrokenSetIndependence ==
  pc = "done" =>
    \A p \in Perms(Len(fileContents)) :
       FirstPassOf(Permuted(fileContents, p)).circ = circularReferences

\* the same with the emitted order alone
C4_EmittedOrderIndependence ==
  pc = "done" =>
    \A p \in Perms(Len(fileContents)) :
       EmittedOrder(generateEntityFileTypes(Permuted(fileContents, p),
                                            usePartialTypes), entityNames)
         = EmittedOrder(output, entityNames)

\* a step of the pipeline can be taken: the guard of one of its actions holds
CanStep ==
  \/ pc = "start"
  \/ pc = "collected"
  \/ pc = "ordered" /\ Len(generatedTypes) <= Len(reorderedFileContents)

(***************************************************************************)
(* C5 as stated: for either value of usePartialTypes the output holds      *)
(* exactly one main declaration per entity and exactly one partial         *)
(* declaration per entity that has a primary key.                          *)
(***************************************************************************)
C5_AsStated ==
  pc = "done" =>
    \A c \in EntityClasses :
       /\ DeclCount(output, c.name) = 1
       /\ SourceHasPk(c) => DeclCount(output, PartialName(c.name)) = 1

(***************************************************************************)
(* C5 amended: generation runs to its end for every input, and the output  *)
(* holds exactly one main declaration per entity; with usePartialTypes     *)
(* enabled it holds exactly one partial declaration per entity that has a  *)
(* primary key and none for an entity without one, however many fields     *)
(* reference the entity; with usePartialTypes disabled it holds no partial *)
(* declaration.                                                            *)
(***************************************************************************)
C5_OneDeclarationEach ==
  /\ pc # "done" => CanStep
  /\ pc = "done" =>
       \A c \in EntityClasses :
          /\ DeclCount(output, c.name) = 1
          /\ DeclCount(output, PartialName(c.name))
               = IF usePartialTypes /\ SourceHasPk(c) THEN 1 ELSE 0

\* partial types enabled, a cycle, an entity without primary key, and an
\* entity with one that two fields of the other entity reference
C5_Witness ==
  /\ pc = "done"
  /\ usePartialTypes
  /\ circularReferences # {}
  /\ \E c \in EntityClasses : ~SourceHasPk(c)
  /\ \E c \in EntityClasses, tc \in PkClasses :
        c # tc /\ Cardinality(MembersTo(c, tc)) >= 2

(***************************************************************************)
(* C6: for a relation field whose target is a known entity with a primary  *)
(* key, when its (from, target) pair is in the BrokenEdgeSet or             *)
(* usePartialTypes is disabled, the projected type (the element type of a  *)
(* to-many field) is an inline object type with exactly one field, which   *)
(* has the name and the type of the target's primary key.                  *)
(***************************************************************************)
C6_StubShape ==
  pc = "done" =>
    \A c \in EntityClasses, tc \in PkClasses :
       (<<c.name, tc.name>> \in circularReferences \/ ~usePartialTypes) =>
         \A i \in MembersTo(c, tc) : ProjectedAsStub(c, c.members[i], tc)

\* partial types enabled, and a to-many and a to-one field of an entity whose
\* pair with the target is broken, the target's primary key being named and
\* typed unlike the entity's own
C6_Witness ==
  /\ pc = "done"
  /\ usePartialTypes
  /\ \E c \in EntityClasses, tc \in PkClasses :
        /\ <<c.name, tc.name>> \in circularReferences
        /\ SourceHasPk(c) /\ SourcePk(c).name # SourcePk(tc).name
        /\ \E i, j \in MembersTo(c, tc) :
              /\ IsToMany(c.members[i]) /\ ~IsToMany(c.members[j])
              /\ ProjectedAsStub(c, c.members[i], tc)
              /\ ProjectedAsStub(c, c.members[j], tc)

(***************************************************************************)
(* C7 as stated: for an entity with a primary key, whatever optionality    *)
(* its fields were declared with, the partial declaration has the fields   *)
(* of the main declaration by name and in order, the primary-key field     *)
(* required and every other field optional.                                *)
(***************************************************************************)
C7_PartialShape ==
  (pc = "done" /\ usePartialTypes) =>
    \A c \in PkClasses :
       LET main == Props(DeclNamed(c.name))
           partial == Props(DeclNamed(PartialName(c.name)))
       IN /\ [i \in DOMAIN partial |-> partial[i].name]
               = [i \in DOMAIN main |-> main[i].name]
          /\ \A i \in DOMAIN partial :
                IsOptional(partial[i]) <=> partial[i].name # SourcePk(c).name

(***************************************************************************)
(* C8: with usePartialTypes enabled and (from, to) in the BrokenEdgeSet,   *)
(* `to` having a primary key, every field of `from` that relates to `to`   *)
(* (to-one or to-many, explicitly typed or inferred from a Collection      *)
(* initializer) is projected with the primary-key stub, and no declaration *)
(* of `from` refers to the partial type of `to`.                           *)
(***************************************************************************)
C8_BrokenPerPair ==
  (pc = "done" /\ usePartialTypes) =>
    \A c \in EntityClasses, tc \in PkClasses :
       <<c.name, tc.name>> \in circularReferences =>
         /\ \A i \in MembersTo(c, tc) : ProjectedAsStub(c, c.members[i], tc)
         /\ \A d \in Range(Decls) :
               d.name \in {c.name, PartialName(c.name)} =>
                 ~Mentions(d, PartialRef(tc.name))

\* a broken pair whose entity has a to-many and a to-one field to the target,
\* more fields than there are relation edges of the pair
C8_Witness ==
  /\ pc = "done"
  /\ usePartialTypes
  /\ \E c \in EntityClasses, tc \in PkClasses :
        /\ <<c.name, tc.name>> \in circularReferences
        /\ \E i, j \in MembersTo(c, tc) :
              IsToMany(c.members[i]) /\ ~IsToMany(c.members[j])
        /\ Cardinality(MembersTo(c, tc))
             > Cardinality({k \in DOMAIN entityRelations :
                              /\ entityRelations[k].from = c.name
                              /\ entityRelations[k].to = tc.name})

(***************************************************************************)
(* C9: with usePartialTypes disabled every relation field whose target is  *)
(* a known entity with a primary key is projected as the primary-key stub, *)
(* its pair in the BrokenEdgeSet or not, and the output holds no partial   *)
(* declaration and no reference to a partial type.                         *)
(***************************************************************************)
C9_DisabledAllStubs ==
  (pc = "done" /\ ~usePartialTypes) =>
    /\ \A c \in EntityClasses, tc \in PkClasses :
          \A i \in MembersTo(c, tc) : ProjectedAsStub(c, c.members[i], tc)
    /\ \A c \in EntityClasses :
          /\ DeclCount(output, PartialName(c.name)) = 0
          /\ ~Mentions(output, PartialRef(c.name))

\* partial types disabled, a broken pair, and a relation field whose pair is
\* not broken
C9_Witness ==
  /\ pc = "done"
  /\ ~usePartialTypes
  /\ circularReferences # {}
  /\ \E c \in EntityClasses, tc \in PkClasses :
        /\ <<c.name, tc.name>> \notin circularReferences
        /\ MembersTo(c, tc) # {}

(***************************************************************************)
(* C10: with usePartialTypes enabled, a to-one relation field from entity  *)
(* F to a known entity T that has a primary key, with (F, T) not in the    *)
(* BrokenEdgeSet, is projected as the reference schema.PartialT: not as    *)
(* the full type T and not as a stub.                                      *)
(***************************************************************************)
C10_PartialReference ==
  (pc = "done" /\ usePartialTypes) =>
    \A c \in EntityClasses, tc \in PkClasses :
       <<c.name, tc.name>> \notin circularReferences =>
         \A i \in MembersTo(c, tc) :
            ~IsToMany(c.members[i]) =>
              ProjectedType(c, c.members[i]) = Ref(PartialRef(tc.name))

\* a to-one field whose pair is not broken, in an entity that has another
\* pair broken
C10_Witness ==
  /\ pc = "done"
  /\ usePartialTypes
  /\ \E c \in EntityClasses, tc \in PkClasses :
        /\ <<c.name, tc.name>> \notin circularReferences
        /\ \E x \in circularReferences : x[1] = c.name
        /\ \E i \in MembersTo(c, tc) : ~IsToMany(c.members[i])

\* the type the to-one policy yields for a field of class c relating to the
\* entity of class tc
ToOnePolicy(c, tc) ==
  IF ~SourceHasPk(tc) THEN Ref(tc.name)
  ELSE IF <<c.name, tc.name>> \in circularReferences \/ ~usePartialTypes
       THEN TypeLiteral(<<PropertySignature(SourcePk(tc).name, FALSE,
                                            SourcePk(tc).type)>>)
       ELSE Ref(PartialRef(tc.name))

C13_EmptyStub ==
  /\ pc # "done" => CanStep
  /\ pc = "done" =>
       \A c \in EntityClasses, tc \in EntityClasses \ PkClasses :
          (<<c.name, tc.name>> \in circularReferences \/ ~usePartialTypes) =>
            \A i \in MembersTo(c, tc) :
               IF IsToMany(c.members[i])
               THEN ProjectedType(c, c.members[i])
                      = CollectionOrArray(<<TypeLiteral(<<>>)>>)
               ELSE ProjectedType(c, c.members[i]) = TypeLiteral(<<>>)

\* the members of class c relating to the name that is no entity
OpaqueMembers(c) == {i \in DOMAIN c.members : RelTarget(c.members[i]) = OpaqueName}

(***************************************************************************)
(* C12 as stated: a relation field, to-one or to-many, whose target name   *)
(* is not a known entity raises no error, contributes no relation edge,    *)
(* and the type emitted for it is exactly the type it was declared with.   *)
(***************************************************************************)
C12_AsStated ==
  /\ pc # "done" => CanStep
  /\ \A k \in DOMAIN entityRelations : entityRelations[k].to # OpaqueName
  /\ pc = "done" =>
       \A c \in EntityClasses : \A i \in OpaqueMembers(c) :
          c.members[i].type # NoType =>
            ProjectedType(c, c.members[i]) = c.members[i].type

(***************************************************************************)
(* C12 amended: a relation field whose target name is not a known entity   *)
(* raises no error and contributes no relation edge; a to-one field is     *)
(* emitted with exactly the type it was declared with; a to-many field is  *)
(* emitted as the union Collection<X> | Array<X> whose element type X is   *)
(* the target type as declared, its type written or inferred.              *)
(***************************************************************************)
C12_OpaqueTarget ==
  /\ pc # "done" => CanStep
  /\ \A k \in DOMAIN entityRelations : entityRelations[k].to # OpaqueName
  /\ pc = "done" =>
       \A c \in EntityClasses : \A i \in OpaqueMembers(c) :
          ProjectedType(c, c.members[i])
            = IF IsToMany(c.members[i])
              THEN CollectionOrArray(<<Ref(OpaqueName)>>)
              ELSE c.members[i].type

\* an entity with a to-one and a to-many field to the name that is no entity
\* and a field to the other entity, the name declared by a class that has a
\* member decorated PrimaryKey
C12_Witness ==
  /\ pc = "done"
  /\ \E c \in SourceClasses : c.name = OpaqueName
  /\ entityRelations # <<>>
  /\ \E c \in EntityClasses : \E i, j \in OpaqueMembers(c) :
        IsToMany(c.members[i]) /\ ~IsToMany(c.members[j])

(***************************************************************************)
(* C14: for User (to-many posts to Post), Post (to-one author to User,     *)
(* to-many comments to Comment) and Comment (to-one post to Post, to-one   *)
(* author to User), the main declarations are emitted in the order User,   *)
(* Comment, Post, in each of the six arrival orders of the three units.    *)
(***************************************************************************)
C14_ScenarioOrder ==
  pc = "done" => EmittedOrder(output, entityNames) = <<"User", "Comment", "Post">>

\* the units arrive in the order Post, Comment, User, and all three
\* entities are on a cycle
C14_Witness ==
  /\ pc = "done"
  /\ entityNames = <<"Post", "Comment", "User">>
  /\ Len(entityRelations) = 5
  /\ circularReferences # {}

(***************************************************************************)
(* C16: for any number of entities, zero included, the output is the one   *)
(* namespace schema whose first declaration is the Collection<T> type,     *)
(* which is declared exactly once and followed by the projected            *)
(* declarations, among them the main declaration of every entity; for      *)
(* empty input the namespace holds the Collection declaration alone.       *)
(***************************************************************************)
C16_NamespaceShape ==
  pc = "done" =>
    /\ output.tag = "namespace" /\ output.name = "schema"
    /\ Decls # <<>>
    /\ Decls[1] = CollectionDeclaration
    /\ DeclCount(output, "Collection") = 1
    /\ Tail(Decls) = Flatten(generatedTypes)
    /\ \A c \in EntityClasses : \E i \in 2 .. Len(Decls) : Decls[i].name = c.name
    /\ fileContents = <<>> => Decls = <<CollectionDeclaration>>

\* the empty input has been processed to its end
C16_Witness ==
  /\ pc = "done"
  /\ fileContents = <<>>
  /\ entityNames = <<>>
  /\ Len(Decls) = 1

\* three entities in two units have been processed to their end
C16_WitnessUnits ==
  /\ pc = "done"
  /\ Len(entityNames) = 3
  /\ Len(fileContents) = 2
  /\ Len(Decls) > 3

(***************************************************************************)
(* C20 as stated: the main declarations of the entities appear in the      *)
(* output in exactly the order sortEntitiesByDependency returned, however  *)
(* the entities are assigned to input units, a unit declaring several      *)
(* entities and two units with identical text included.                    *)
(***************************************************************************)
C20_AssemblyKeepsOrder ==
  pc = "done" => EmittedOrder(output, entityNames) = sortedEntityNames

\* the same for inputs whose units declare one entity each
C20_OneEntityPerUnit ==
  (pc = "done" /\ \A u \in DOMAIN fileContents : Len(fileContents[u]) = 1) =>
     EmittedOrder(output, entityNames) = sortedEntityNames

\* the entities directory exists and holds no entity file
InputEmpty ==
  /\ vpc # "direct"
  /\ fileSystem.entitiesDir # MissingDir
  /\ EntityFiles(fileSystem.entitiesDir) = <<>>

\* the entities directory does not exist
InputMissing == vpc # "direct" /\ fileSystem.entitiesDir = MissingDir

\* the target validation library is given and is no key of modelsToFunction
TargetUnrecognized ==
  /\ vpc # "direct"
  /\ opts.targetValidationLibrary \notin {Undefined} \cup DOMAIN modelsToFunction

\* the output file is as it was before the run
OutputFileUntouched == fileSystem.outputFile \in OutputFilesBefore

\* a step of generateEntityValidator can be taken
ValidatorCanStep ==
  \/ vpc \in {"readEntities", "formatCode", "writeFile", "return"}
  \/ vpc = "generateEntityFileTypes" /\ (pc = "done" \/ CanStep)

(***************************************************************************)
(* C15 as stated: with an empty input collection (no input units) the run  *)
(* aborts with an error: it never returns, produces no output text and     *)
(* leaves the output file alone.                                           *)
(***************************************************************************)
C15_AsStated ==
  InputEmpty =>
    /\ vpc # "returned"
    /\ output = NoType
    /\ OutputFileUntouched

(***************************************************************************)
(* C15 amended: a missing entities directory aborts the run with the       *)
(* error naming the directory before anything is projected, generated or   *)
(* written.  An existing directory without entity files does not abort the *)
(* run: generateEntityFileTypes returns the namespace holding the          *)
(* Collection declaration alone, and the run goes on to return (and write) *)
(* the validator generated from it, unless the target library is           *)
(* rejected.                                                               *)
(***************************************************************************)
C15_MissingDirAborts ==
  /\ (InputMissing /\ vpc # "readEntities") =>
       /\ vpc = "thrown"
       /\ returned = Error("Entities directory does not exist")
       /\ pc = "idle" /\ output = NoType /\ validatorCode = NoType
       /\ OutputFileUntouched
  /\ InputEmpty =>
       /\ vpc = "thrown" => TargetUnrecognized
       /\ vpc \notin {"thrown", "returned"} => ValidatorCanStep
       /\ pc = "done" => output = Namespace(<<>>)
       /\ vpc = "returned" => /\ returned = validatorCode
                              /\ returned.tag \notin {"error", "none"}

\* a directory holding only a file that is no entity file: the run has
\* returned and written the validator of the empty namespace
C15_Witness ==
  /\ InputEmpty
  /\ fileSystem.entitiesDir # <<>>
  /\ vpc = "returned"
  /\ fileSystem.outputFile = returned

(***************************************************************************)
(* C17 as stated: a target validation library that is none of the keys of  *)
(* modelsToFunction is rejected with the error 'Invalid target validation  *)
(* library' before projection starts: generateEntityFileTypes is never     *)
(* entered.                                                                *)
(***************************************************************************)
C17_RejectedBeforeProjection ==
  TargetUnrecognized =>
    /\ pc = "idle"
    /\ vpc # "readEntities" =>
         (~InputMissing =>
            /\ vpc = "thrown"
            /\ returned = Error("Invalid target validation library"))

(***************************************************************************)
(* C18: partial output is never emitted.  Whenever generateEntityValidator *)
(* ends in an error the output file is as it was before the run; the file  *)
(* is written in one step only, after reading, projection, validator       *)
(* generation and formatting have succeeded, and with the formatted code.  *)
(***************************************************************************)
C18_NoPartialOutput ==
  vpc # "direct" =>
    /\ vpc = "thrown" => OutputFileUntouched /\ returned.tag = "error"
    /\ ~OutputFileUntouched =>
         /\ vpc \in {"return", "returned"}
         /\ pc = "done"
         /\ fileSystem.outputFile = validatorCode
         /\ \E prettierWorks \in BOOLEAN :
               validatorCode
                 = formatCode(postprocessEnums(generateValidator(opts, output)),
                              prettierWorks)

\* the run asked to write has ended in the error of the target library after
\* the entities were projected, and the earlier output file is still there
C18_Witness ==
  /\ vpc = "thrown"
  /\ opts.write = "true"
  /\ pc = "done"
  /\ returned = Error("Invalid target validation library")
  /\ fileSystem.outputFile = EarlierFile

(***************************************************************************)
(* C19 as stated: generateEntityValidator writes the output file exactly   *)
(* when the write option is true, an omitted write option counting as      *)
(* true; with write false the file system is unchanged; the generated code *)
(* is returned in every case.                                              *)
(***************************************************************************)
C19_WriteDefault ==
  vpc = "returned" =>
    /\ returned = validatorCode
    /\ fileSystem.outputFile = returned <=> opts.write # "false"
    /\ opts.write = "false" => OutputFileUntouched

\* the closing pair of a recorded cycle: its last edge
ClosingPair(cycle) == <<cycle[Len(cycle) - 1], cycle[Len(cycle)]>>

\* the closing pairs, between different entities, of a list of cycles
ClosingPairs(cycles) == ProperPairs({ClosingPair(cycles[i]) : i \in DOMAIN cycles})

RECURSIVE SkipOnlyOnOwnPair(_, _)
\* along the loop over the cycles, whenever a broken pair lies on the cycle
\* at hand, the pair is the cycle's own closing pair
SkipOnlyOnOwnPair(cycles, broken) ==
  \/ cycles = <<>>
  \/ /\ CyclePairs(Head(cycles)) \cap broken \subseteq {ClosingPair(Head(cycles))}
     /\ SkipOnlyOnOwnPair(Tail(cycles), BreakCycle(Head(cycles), broken))

(***************************************************************************)
(* C21: the BrokenEdgeSet is exactly the set of the closing pairs          *)
(* (from, to), from # to, of the cycles the search recorded; the skip of   *)
(* an already broken cycle fires only on the cycle's own closing pair,     *)
(* and the cycles processed in any other order than longest-first give     *)
(* the same BrokenEdgeSet.                                                 *)
(***************************************************************************)
C21_ClosingPairsExactly ==
  pc # "start" =>
    LET allCycles == DetectCycles(entityRelations, entityNames)
    IN /\ circularReferences = ClosingPairs(allCycles)
       /\ SkipOnlyOnOwnPair(SortCyclesByLength(allCycles), {})
       /\ \A p \in Perms(Len(allCycles)) :
             BreakCycles(Permuted(allCycles, p), {}) = circularReferences

\* cycles of different lengths recorded shortest first, one of them recorded
\* twice by parallel relation fields so that the skip fires
C21_Witness ==
  /\ pc = "collected"
  /\ LET allCycles == DetectCycles(entityRelations, entityNames)
     IN /\ \E i, j \in DOMAIN allCycles :
              i # j /\ allCycles[i] = allCycles[j] /\ Len(allCycles[i]) > 2
        /\ \E i, j \in DOMAIN allCycles : Len(allCycles[i]) > Len(allCycles[j])
        /\ SortCyclesByLength(allCycles) # allCycles
  /\ circularReferences # {}

\* the sets of pairs whose removal leaves no directed cycle through two or
\* more entities
BreakingSets(E) == {S \in SUBSET ProperPairs(E) : ~HasCycle(ProperPairs(E) \ S)}

\* the smallest number of pairs whose removal does so
MinimumBreak(E) ==
  CHOOSE k \in 0 .. Cardinality(E) :
    /\ \E S \in BreakingSets(E) : Cardinality(S) = k
    /\ \A S \in BreakingSets(E) : Cardinality(S) >= k

(***************************************************************************)
(* C22 as stated: the number of (from, to) pairs in the BrokenEdgeSet is   *)
(* the smallest number of entity pairs whose removal leaves the relation   *)
(* graph without a directed cycle through two or more entities.            *)
(***************************************************************************)
C22_MinimumBroken ==
  pc # "start" =>
    Cardinality(circularReferences) = MinimumBreak(EdgePairs(entityRelations))

\* the entities Kahn's phase released, in the order it released them
Drained ==
  LET g == BuildGraph(entityRelations, entityNames, InitialGraph(entityNames))
  IN Kahn(g.adjacencyList, SelectSeq(entityNames, LAMBDA e : g.inDegree[e] = 0),
          g.inDegree, <<>>)

\* the entities left when the drain stopped, in the order they were appended
Undrained == SubSeq(sortedEntityNames, Len(Drained) + 1, Len(sortedEntityNames))

\* the number of relation fields of an entity that target a known entity
InDegree(e) ==
  BuildGraph(entityRelations, entityNames, InitialGraph(entityNames)).inDegree[e]

\* the number of dependencies of an entity still unmet when the drain stopped
Unmet(e) ==
  LET g == BuildGraph(entityRelations, entityNames, InitialGraph(entityNames))
  IN WorkingInDegreeAfter(g.adjacencyList,
                          SelectSeq(entityNames, LAMBDA n : g.inDegree[n] = 0),
                          g.inDegree)[e]

\* a comes before b by (primary key, outgoing relations, lexical name)
KeyLess(Primary(_), a, b) ==
  \/ Primary(a) < Primary(b)
  \/ /\ Primary(a) = Primary(b)
     /\ \/ Outgoing(entityRelations, a) < Outgoing(entityRelations, b)
        \/ /\ Outgoing(entityRelations, a) = Outgoing(entityRelations, b)
           /\ LocaleLess(a, b)

\* the undrained entities are appended after the drained ones, each once, in
\* ascending order of the key
UndrainedOrderedBy(Primary(_)) ==
  /\ SubSeq(sortedEntityNames, 1, Len(Drained)) = Drained
  /\ Range(Undrained) = Range(entityNames) \ Range(Drained)
  /\ Len(sortedEntityNames) = Len(entityNames)
  /\ \A i, j \in DOMAIN Undrained :
        i < j => KeyLess(Primary, Undrained[i], Undrained[j])

(***************************************************************************)
(* C23 as stated: the undrained entities are appended in ascending order   *)
(* of the number of their dependencies still unmet when the drain stopped, *)
(* ties by ascending count of outgoing relations, remaining ties by        *)
(* lexical name.                                                           *)
(***************************************************************************)
C23_AsStated ==
  pc \in {"ordered", "done"} => UndrainedOrderedBy(Unmet)

(***************************************************************************)
(* C23 amended: the undrained entities are appended in ascending order of  *)
(* their in-degree as counted before the drain (all their relation fields  *)
(* targeting a known entity, those the drain has met included), ties by    *)
(* ascending count of outgoing relations, remaining ties by lexical name.  *)
(***************************************************************************)
C23_RemainderOrder ==
  pc \in {"ordered", "done"} => UndrainedOrderedBy(InDegree)

\* one entity drained and two undrained, of which the one with fewer unmet
\* dependencies is appended last, the drain having met one of its dependencies
C23_Witness ==
  /\ pc = "ordered"
  /\ Len(Drained) = 1
  /\ \E a, b \in Range(Undrained) :
        /\ Unmet(a) < InDegree(a)
        /\ Unmet(a) < Unmet(b)
        /\ Pos(sortedEntityNames, b) < Pos(sortedEntityNames, a)

\* the names of the classes carrying the Entity decorator
KnownEntityNames == {c.name : c \in EntityClasses}

(***************************************************************************)
(* C24: for every entity set and relation graph (cyclic, with              *)
(* self-relations, with parallel relation fields) sortEntitiesByDependency *)
(* returns a sequence holding every known entity name exactly once and     *)
(* nothing else.                                                           *)
(***************************************************************************)
C24_TotalOrder ==
  pc \in {"ordered", "done"} =>
    /\ Range(sortedEntityNames) = KnownEntityNames
    /\ Range(sortedEntityNames) = Range(entityNames)
    /\ \A i, j \in DOMAIN sortedEntityNames :
          sortedEntityNames[i] = sortedEntityNames[j] => i = j

\* a graph with a self-relation, a parallel relation field and a cycle
\* through two entities that depend on a drained one
C24_Witness ==
  /\ pc = "ordered"
  /\ Len(sortedEntityNames) = NumEntities
  /\ Len(Drained) = 1
  /\ \E i \in DOMAIN entityRelations : entityRelations[i].from = entityRelations[i].to
  /\ Cardinality(EdgePairs(entityRelations)) < Len(entityRelations)
  /\ circularReferences # {}

\* field m carries a decorator the relation collector looks at and names
\* entity n as its target
CollectorReads(m, n) ==
  /\ m.deco \in {"ManyToOne", "OneToMany"}
  /\ TargetEntityName(m) = n

\* field m of class c is projected as the reference the policy yields for
\* the target class tc: as its type when to-one, as its element type when
\* to-many
ProjectedAsReference(c, m, tc) ==
  ProjectedType(c, m) = IF IsToMany(m)
                        THEN CollectionOrArray(<<ToOnePolicy(c, tc)>>)
                        ELSE ToOnePolicy(c, tc)

(***************************************************************************)
(* C25: two-phase ordering.  Whenever a unit has been projected, the       *)
(* entity names, the primary-key map, the relation edges, the              *)
(* BrokenEdgeSet and the emission order have been computed from all input  *)
(* units, and every unit is projected with them.  Entity names, primary    *)
(* keys and relation edges are the same in every arrival order of the      *)
(* units, so a relation field from A to B yields its edge and is projected *)
(* as a reference to B whether B's unit arrives before or after A's.       *)
(***************************************************************************)
C25_TwoPhase ==
  LET f == FirstPassOf(fileContents)
      sorted == sortEntitiesByDependency(f.rels, f.names)
  IN /\ generatedTypes # <<>> =>
          /\ pc \in {"ordered", "done"}
          /\ entityNames = f.names
          /\ entityPrimaryKeys = f.pk
          /\ entityRelations = f.rels
          /\ circularReferences = f.circ
          /\ sortedEntityNames = sorted
          /\ reorderedFileContents = ReorderFileContents(fileContents, sorted)
          /\ \A u \in DOMAIN generatedTypes :
                generatedTypes[u]
                  = generateEntityTypes(reorderedFileContents[u], f.pk,
                                        usePartialTypes, f.circ)
     /\ pc # "start" =>
          \A p \in Perms(Len(fileContents)) :
             LET g == FirstPassOf(Permuted(fileContents, p))
             IN /\ Range(g.names) = Range(entityNames)
                /\ g.pk = f.pk
                /\ EdgePairs(g.rels) = EdgePairs(entityRelations)
     /\ pc = "done" =>
          \A c \in EntityClasses, tc \in PkClasses :
             \A i \in MembersTo(c, tc) :
                /\ CollectorReads(c.members[i], tc.name) =>
                     <<c.name, tc.name>> \in EdgePairs(entityRelations)
                /\ ProjectedAsReference(c, c.members[i], tc)

\* the unit of A arrives before the unit of B, A has a to-one field to B and
\* B no field to A: the edge (A, B) is there, B's unit is projected first and
\* the field is projected as the reference to B's partial type
C25_Witness ==
  /\ pc = "done"
  /\ usePartialTypes
  /\ fileContents[1][1].name = "A"
  /\ reorderedFileContents[1][1].name = "B"
  /\ EdgePairs(entityRelations) = {<<"A", "B">>}
  /\ \E c \in EntityClasses, tc \in PkClasses :
        /\ c.name = "A" /\ tc.name = "B"
        /\ \E i \in MembersTo(c, tc) :
              /\ ~IsToMany(c.members[i])
              /\ ProjectedType(c, c.members[i]) = Ref(PartialRef("B"))

\* the self-relations are recorded as cycles and never broken
SelfRelationsKept ==
  /\ \A x \in EdgePairs(entityRelations) :
        x[1] = x[2] =>
          <<x[1], x[1]>> \in Range(DetectCycles(entityRelations, entityNames))
  /\ \A x \in circularReferences : x[1] # x[2]

\* field m of class c is projected as the reference to c's own partial type:
\* as its type when to-one, as its element type when to-many
ProjectedAsOwnPartial(c, m) ==
  ProjectedType(c, m) = IF IsToMany(m)
                        THEN CollectionOrArray(<<Ref(PartialRef(c.name))>>)
                        ELSE Ref(PartialRef(c.name))

(***************************************************************************)
(* C26 as stated: a relation from an entity to itself is never broken (the *)
(* search records the cycle [A, A], no pair (A, A) enters the              *)
(* BrokenEdgeSet), so with usePartialTypes enabled a self-relation field   *)
(* of any entity A is projected as a reference to A's own partial type.    *)
(***************************************************************************)
C26_AsStated ==
  /\ pc # "start" => SelfRelationsKept
  /\ (pc = "done" /\ usePartialTypes) =>
       \A c \in EntityClasses :
          \A i \in MembersTo(c, c) : ProjectedAsOwnPartial(c, c.members[i])

(***************************************************************************)
(* C26 amended: a relation from an entity to itself is never broken (the   *)
(* search records the cycle [A, A], no pair (A, A) enters the              *)
(* BrokenEdgeSet), so with usePartialTypes enabled a self-relation field   *)
(* of an entity A that has a primary key is projected as a reference to    *)
(* A's own partial type, not as a stub.  An entity without primary key has *)
(* no partial type to refer to.                                            *)
(***************************************************************************)
C26_SelfRelationKept ==
  /\ pc # "start" => SelfRelationsKept
  /\ (pc = "done" /\ usePartialTypes) =>
       /\ \A c \in PkClasses :
             \A i \in MembersTo(c, c) : ProjectedAsOwnPartial(c, c.members[i])
       /\ \A c \in EntityClasses \ PkClasses :
             DeclCount(output, PartialName(c.name)) = 0

\* partial types enabled, and an entity whose pair with the other entity is
\* broken while its field to itself refers to its own partial type
C26_Witness ==
  /\ pc = "done"
  /\ usePartialTypes
  /\ \E c \in PkClasses :
        /\ <<c.name, c.name>> \in Range(DetectCycles(entityRelations, entityNames))
        /\ \E x \in circularReferences : x[1] = c.name
        /\ \E i \in MembersTo(c, c) : ProjectedAsOwnPartial(c, c.members[i])

(***************************************************************************)
(* C27: the BrokenEdgeSet is inclusion-minimal.  Each broken pair closes a *)
(* recorded cycle none of whose other pairs is broken, so taking any       *)
(* single pair out of the BrokenEdgeSet leaves a directed cycle among the  *)
(* non-broken relation edges.                                              *)
(***************************************************************************)
C27_InclusionMinimal ==
  pc # "start" =>
    \A x \in circularReferences :
       /\ \E c \in Range(DetectCycles(entityRelations, entityNames)) :
             /\ ClosingPair(c) = x
             /\ CyclePairs(c) \cap circularReferences = {x}
       /\ HasCycle(ProperPairs(EdgePairs(entityRelations))
                     \ (circularReferences \ {x}))

\* two pairs are broken where breaking one other pair would do
C27_Witness ==
  /\ pc = "collected"
  /\ Cardinality(circularReferences) = 2
  /\ MinimumBreak(EdgePairs(entityRelations)) = 1

\* field m of class c has contributed a relation edge to the entity n
ContributesEdge(c, m, n) ==
  \E k \in DOMAIN entityRelations :
     /\ entityRelations[k].from = c.name
     /\ entityRelations[k].to = n
     /\ entityRelations[k].propertyName = m.name

(***************************************************************************)
(* C28 as stated: every field the projection turns into a reference to     *)
(* another entity (its declared type, or the element type of its           *)
(* Collection, names a known entity with a primary key) has contributed a  *)
(* relation edge to the graph of the cycle detector and the orderer,       *)
(* whatever decorator the field carries.                                   *)
(***************************************************************************)
C28_EveryReferenceAnEdge ==
  pc = "done" =>
    \A c \in EntityClasses, tc \in PkClasses :
       \A i \in MembersTo(c, tc) :
          (c # tc /\ ProjectedAsReference(c, c.members[i], tc)) =>
            ContributesEdge(c, c.members[i], tc.name)

\* the entities lying on a directed cycle, a self-relation included; T is the
\* transitive closure of the relation edges
OnCycleIn(T) == {n \in Range(entityNames) : <<n, n>> \in T}

OnCycle == OnCycleIn(Closure(EdgePairs(entityRelations)))

\* the entities with no directed path to an entity lying on a cycle
CycleFreeIn(T) ==
  LET onCycle == OnCycleIn(T)
  IN {n \in Range(entityNames) \ onCycle : \A m \in onCycle : <<n, m>> \notin T}

(***************************************************************************)
(* C29: in the order sortEntitiesByDependency returns for any graph, the   *)
(* entities Kahn's phase released are those with no directed path to an    *)
(* entity lying on a cycle; they all come before every other entity, and   *)
(* each of them comes after all entities it depends on; only the entities  *)
(* on a cycle or depending on one are placed by the tie-break sort.        *)
(***************************************************************************)
C29_DrainedFirst ==
  pc \in {"ordered", "done"} =>
    LET cycleFree == CycleFreeIn(Closure(EdgePairs(entityRelations)))
        drained == Drained
        undrained == SubSeq(sortedEntityNames, Len(drained) + 1,
                            Len(sortedEntityNames))
    IN /\ Range(drained) = cycleFree
       /\ SubSeq(sortedEntityNames, 1, Len(drained)) = drained
       /\ Range(undrained) = Range(entityNames) \ cycleFree
       /\ \A n \in cycleFree :
             /\ \A m \in Range(entityNames) \ cycleFree :
                   Pos(sortedEntityNames, n) < Pos(sortedEntityNames, m)
             /\ \A k \in DOMAIN entityRelations :
                   entityRelations[k].from = n =>
                     Pos(sortedEntityNames, entityRelations[k].to)
                       < Pos(sortedEntityNames, n)

\* an entity released by Kahn's phase that arrived last, an entity on a
\* cycle, and an entity that is on no cycle but depends on both
C29_Witness ==
  /\ pc = "ordered"
  /\ Len(Drained) = 1
  /\ entityNames[NumEntities] = Drained[1]
  /\ \E n \in Range(Undrained) \ OnCycle :
        /\ <<n, Drained[1]>> \in EdgePairs(entityRelations)
        /\ \E m \in OnCycle : <<n, m>> \in EdgePairs(entityRelations)

\* the relation fields of the entity named n that the relation collector
\* reads and that target a known entity, one for every declaration of the
\* field in the input: <<k, i>> is member i of the k-th class of the input
RelationFields(n) ==
  LET classes == AllCode(fileContents)
  IN UNION {{<<k, i>> : i \in {i \in DOMAIN classes[k].members :
                                 /\ classes[k].members[i].deco
                                      \in {"ManyToOne", "OneToMany"}
                                 /\ Includes(entityNames,
                                             TargetEntityName(classes[k].members[i]))}} :
            k \in {k \in DOMAIN classes :
                     classes[k].entity /\ classes[k].name = n}}

\* a comes before b by (count of outgoing relations, lexical name)
FieldCountLess(a, b) ==
  \/ Outgoing(entityRelations, a) < Outgoing(entityRelations, b)
  \/ /\ Outgoing(entityRelations, a) = Outgoing(entityRelations, b)
     /\ LocaleLess(a, b)

(***************************************************************************)
(* C30: in sortEntitiesByDependency the in-degree of an entity equals its  *)
(* count of outgoing relations, both being the number of its relation      *)
(* fields that target a known entity; so two undrained entities that tie   *)
(* on the in-degree tie on the outgoing count too, and the undrained       *)
(* entities are ordered by (number of relation fields, lexical name)       *)
(* alone.                                                                  *)
(***************************************************************************)
C30_InDegreeIsOutgoing ==
  /\ pc # "start" =>
       \A c \in EntityClasses :
          /\ InDegree(c.name) = Outgoing(entityRelations, c.name)
          /\ InDegree(c.name) = Cardinality(RelationFields(c.name))
  /\ pc \in {"ordered", "done"} =>
       LET undrained == Undrained
       IN \A i, j \in DOMAIN undrained :
             i < j => FieldCountLess(undrained[i], undrained[j])

\* three undrained entities, two tying on the number of relation fields and
\* ordered by name, the third with parallel fields and more of them
C30_Witness ==
  /\ pc = "ordered"
  /\ Len(Undrained) = NumEntities
  /\ Cardinality(EdgePairs(entityRelations)) < Len(entityRelations)
  /\ InDegree(sortedEntityNames[1]) = InDegree(sortedEntityNames[2])
  /\ InDegree(sortedEntityNames[2]) < InDegree(sortedEntityNames[3])
  /\ LocaleLess(sortedEntityNames[3], sortedEntityNames[1])

====
